---- MODULE Spec2Model ----
(***************************************************************************)
(* A model of FileOrganizer (src/file_organizer.py): the category table,   *)
(* categorize_file, create_category_folders and organize_files, run        *)
(* against a small filesystem.                                             *)
(*                                                                         *)
(* Spec drives organize_files on a directory with old entries, SpecLoop on *)
(* one that holds two files of one category, SpecAgain calls it again on   *)
(* such a directory with the earlier result kept.  SpecCat hands names to  *)
(* categorize_file, SpecFolders calls create_category_folders directly,    *)
(* SpecProperty reads file_extensions and changes what it got,             *)
(* SpecSummary hands results to print_summary, SpecMain runs main.         *)
(*                                                                         *)
(* A file name is a sequence of one-character strings, so that the suffix  *)
(* and its lower-casing are computed as pathlib and str.lower compute      *)
(* them.  A regular file carries the place it was first seen at as its     *)
(* identity, so that "the same file" and "a file of the same name" differ. *)
(***************************************************************************)
EXTENDS Naturals, Sequences, FiniteSets, TLC

\* ------------------------------------------------------------------ bounds
\* At most this many regular files lie directly in the directory at the start.
MaxFiles == 2
\* At most this many entries lie in the category folders at the start.
MaxOld == 1
\* organize_files is called at most this many times in one behaviour.
MaxRuns == 1
\* A caller that keeps what a call returned calls organize_files again at most
\* this many times.
MaxAgain == 1
\* create_category_folders is called directly at most this many times.
MaxCalls == 2
\* A list of a result handed to print_summary has at most this many names.
MaxListed == 2
\* A filename handed to categorize_file has at most this many characters.
MaxNameLen == 5

\* ------------------------------------------------------------- file names
aJPG == <<"a", ".", "J", "P", "G">>
bTxt == <<"b", ".", "t", "x", "t">>
cNoExt == <<"c">>
dPdf == <<"d", ".", "p", "d", "f">>
fOther == <<"O", "t", "h", "e", "r">>
subDir == <<"s", "u", "b">>

\* The names a regular file directly in the directory may have.
FileNames == {aJPG, bTxt, cNoExt, dPdf, fOther}
\* The names of the files a directory with old entries in its category folders
\* starts with: one name for each category met.
StartNames == FileNames \ {dPdf}
\* The names of the files a directory without old entries starts with: two
\* names of one category among them.
LoopNames == {aJPG, bTxt, dPdf, fOther}
\* The names of the direct children that are not category folders.
TopNames == FileNames \cup {subDir}

\* LATIN SMALL LETTER LONG S (U+017F), one character of a filename: str.lower
\* leaves it as it is, str.upper makes it 'S'.
LongS == "U+017F"

\* The characters the filenames handed to categorize_file are made of.
NameChars == {".", "c", "g", "j", "s", "z", LongS}

\* The filenames handed to categorize_file: every string of these characters.
Names == UNION {[1..k -> NameChars] : k \in 0..MaxNameLen}

RECURSIVE Join(_)
\* The string a sequence of characters spells.
Join(s) == IF s = <<>> THEN "" ELSE Head(s) \o Join(Tail(s))

\* ------------------------------------------------------------------ state
VARIABLES
  exists,       \* self.directory.exists()
  top,          \* direct children that are no category folder: name -> entry
  folders,      \* the category names that are subdirectories of the directory
  inDir,        \* <directory>/<category>/<name>: category -> name -> entry
  nested,       \* <directory>/<category>/<name>/<name>, when the former is a directory
  inSub,        \* the file inside the subdirectory subDir
  pc,           \* where organize_files stands
  dry_run,      \* the argument of the running call
  files,        \* the list built from iterdir()
  idx,          \* the position of the for loop in files
  mk,           \* the position of create_category_folders in its list
  moved_files,  \* the result being built
  out,          \* what has been printed by the running call
  error,        \* the exception the call ended with
  runs,         \* calls made so far
  before,       \* the filesystem as it was when the running call began
  self_file_extensions,  \* self._file_extensions: the keys in order, and their lists
  returned,     \* the value a caller last got from the property file_extensions
  shared,       \* the keys whose list in `returned` is the organizer's own list object
  arg,          \* the filename handed to categorize_file
  category,     \* what categorize_file returned for arg
  ret,          \* where create_category_folders returns to
  caller,       \* who drives the organizer: the API user or main
  create_folders,  \* args.create_folders
  exit_code,    \* what main returned
  kept          \* what the caller kept of the call of organize_files before this one

\* --------------------------------------------------------- category table
\* The keys of _file_extensions in their declared order.
TableKeys == <<"Images", "Documents", "Videos", "Audio", "Archives", "Code", "Executables">>

\* The table __init__ stores in self._file_extensions.
file_extensions ==
  [ Images |-> {".jpg", ".jpeg", ".png", ".gif", ".bmp", ".svg", ".webp", ".ico"},
    Documents |-> {".pdf", ".doc", ".docx", ".txt", ".rtf", ".odt", ".xls", ".xlsx", ".ppt", ".pptx"},
    Videos |-> {".mp4", ".avi", ".mkv", ".mov", ".wmv", ".flv", ".webm", ".m4v"},
    Audio |-> {".mp3", ".wav", ".flac", ".aac", ".ogg", ".m4a", ".wma"},
    Archives |-> {".zip", ".rar", ".7z", ".tar", ".gz", ".bz2"},
    Code |-> {".py", ".js", ".html", ".css", ".java", ".cpp", ".c", ".php", ".rb", ".go"},
    Executables |-> {".exe", ".msi", ".deb", ".rpm", ".dmg", ".app"} ]

\* list(self._file_extensions.keys()) + ['Other']
CategoryList == Append(TableKeys, "Other")

Categories == {CategoryList[i] : i \in 1..Len(CategoryList)}

\* ------------------------------------------------------- the classifier
UpperChars == <<"A", "B", "C", "D", "E", "F", "G", "H", "I", "J", "K", "L", "M",
                "N", "O", "P", "Q", "R", "S", "T", "U", "V", "W", "X", "Y", "Z">>
LowerChars == <<"a", "b", "c", "d", "e", "f", "g", "h", "i", "j", "k", "l", "m",
                "n", "o", "p", "q", "r", "s", "t", "u", "v", "w", "x", "y", "z">>

\* A slip: str.swapcase in the place of str.lower.
SwapCaseChar(ch) ==
  IF \E i \in 1..Len(UpperChars) : UpperChars[i] = ch
  THEN LowerChars[CHOOSE i \in 1..Len(UpperChars) : UpperChars[i] = ch]
  ELSE IF \E i \in 1..Len(LowerChars) : LowerChars[i] = ch
  THEN UpperChars[CHOOSE i \in 1..Len(LowerChars) : LowerChars[i] = ch]
  ELSE ch

\* str.lower on one character.
LowerChar(ch) ==
  IF \E i \in 1..Len(UpperChars) : UpperChars[i] = ch
  THEN LowerChars[CHOOSE i \in 1..Len(UpperChars) : UpperChars[i] = ch]
  ELSE ch

\* str.lower
Lower(s) == [i \in 1..Len(s) |-> LowerChar(s[i])]

\* A slip: name.find('.'), the first '.' in the place of the last.
FindDot(name) ==
  IF \E i \in 1..Len(name) : name[i] = "."
  THEN CHOOSE i \in 1..Len(name) : name[i] = "." /\ \A j \in 1..(i-1) : name[j] # "."
  ELSE 0

\* name.rfind('.'), counted from 1; 0 when the name holds no '.'.
RFindDot(name) ==
  IF \E i \in 1..Len(name) : name[i] = "."
  THEN CHOOSE i \in 1..Len(name) : name[i] = "." /\ \A j \in (i+1)..Len(name) : name[j] # "."
  ELSE 0

\* Path.suffix: the text from the last '.', when that '.' is neither the first
\* nor the last character of the name; empty otherwise.
Suffix(name) ==
  LET i == RFindDot(name)
  IN IF 1 < i /\ i < Len(name) THEN SubSeq(name, i, Len(name)) ELSE <<>>

\* A slip: the suffix is compared as written, without .lower().
get_file_extension_no_lower(name) == Join(Suffix(name))

\* get_file_extension
get_file_extension(name) == Join(Lower(Suffix(name)))

\* A slip: the `return 'Other'` after the loop is missing, so the method
\* returns None.
categorize_file_no_fallback(name) ==
  LET ext == get_file_extension(name)
      keys == self_file_extensions.keys
      hits == {i \in 1..Len(keys) : ext \in self_file_extensions.exts[keys[i]]}
  IN IF hits = {} THEN "None"
     ELSE keys[CHOOSE i \in hits : \A j \in hits : i <= j]

\* categorize_file: the first key of self._file_extensions, in the order of the
\* dict, whose list holds the extension; 'Other' when the loop ends without one.
categorize_file(name) ==
  LET ext == get_file_extension(name)
      keys == self_file_extensions.keys
      hits == {i \in 1..Len(keys) : ext \in self_file_extensions.exts[keys[i]]}
  IN IF hits = {} THEN "Other"
     ELSE keys[CHOOSE i \in hits : \A j \in hits : i <= j]

\* ------------------------------------------------------------ filesystem
Absent == [kind |-> "absent"]
Dir == [kind |-> "dir"]
\* A regular file, named by the place it lay at when the behaviour began.
File(place, cat, name) == [kind |-> "file", first |-> place, cat |-> cat, name |-> name]

\* The regular file that lay directly in the directory under this name.
TopFile(name) == File("top", "", name)

fs == <<exists, top, folders, inDir, nested, inSub>>
\* The table and what a caller holds of it.
tbl == <<self_file_extensions, returned, shared>>
\* One call of categorize_file.
classified == <<arg, category>>
\* The command line.
cli == <<caller, create_folders, exit_code>>
vars == <<exists, top, folders, inDir, nested, inSub, pc, dry_run, files, idx, mk,
          moved_files, out, error, runs, before, self_file_extensions, returned, shared,
          arg, category, ret, caller, create_folders, exit_code, kept>>

\* The filesystem as one value.
Snapshot == [exists |-> exists, top |-> top, folders |-> folders, inDir |-> inDir,
             nested |-> nested, inSub |-> inSub]

\* The places of a category folder an earlier run or the user may have filled:
\* the destination of each name that can be moved there (a regular file named
\* Other excludes the folder Other), and one place of another category.
OldPlaces == {<<categorize_file(n), n>> : n \in StartNames \ {fOther}} \cup {<<"Videos", aJPG>>}
OldShapes == {"file", "dir", "dirfull"}

\* The sets of category folders that exist at the start.
PreFolders == {{}, {"Images", "Documents"}, Categories}

\* All orders of a finite set of names.
Orders(S) == {s \in [1..Cardinality(S) -> S] : \A i, j \in 1..Cardinality(S) : s[i] = s[j] => i = j}

InitFs ==
  /\ exists \in BOOLEAN
  /\ \E F \in SUBSET StartNames, hasSub \in BOOLEAN, pre \in PreFolders :
       /\ Cardinality(F) <= MaxFiles
       /\ ~exists => F = {} /\ ~hasSub /\ pre = {}
       /\ \A n \in F : Join(n) \notin pre
       /\ folders = pre
       /\ top = [n \in TopNames |-> IF n \in F THEN TopFile(n)
                                    ELSE IF n = subDir /\ hasSub THEN Dir ELSE Absent]
       /\ inSub = IF hasSub THEN File("sub", "", bTxt) ELSE Absent
       /\ \E old \in SUBSET (OldPlaces \X OldShapes) :
            /\ Cardinality(old) <= MaxOld
            /\ \A o \in old : o[1][1] \in pre
            /\ \A o, q \in old : o[1] = q[1] => o = q
            /\ inDir = [c \in Categories |-> [n \in TopNames |->
                         IF <<<<c, n>>, "file">> \in old THEN File("cat", c, n)
                         ELSE IF \E sh \in {"dir", "dirfull"} : <<<<c, n>>, sh>> \in old THEN Dir
                         ELSE Absent]]
            /\ nested = [c \in Categories |-> [n \in TopNames |->
                         IF <<<<c, n>>, "dirfull">> \in old THEN File("nested", c, n)
                         ELSE Absent]]

\* The caller has made no call of organize_files yet.
NothingKept == [run |-> 0]

\* __init__ stores the table; nothing has been read from it or classified yet.
InitTable ==
  /\ self_file_extensions = [keys |-> TableKeys, exts |-> file_extensions]
  /\ returned = [keys |-> <<>>, exts |-> <<>>]
  /\ shared = {}

Init ==
  /\ InitTable
  /\ kept = NothingKept
  /\ arg = <<>>
  /\ category = ""
  /\ ret = "none"
  /\ caller = "api"
  /\ create_folders = FALSE
  /\ exit_code = "none"
  /\ InitFs
  /\ pc = "idle"
  /\ dry_run = FALSE
  /\ files = <<>>
  /\ idx = 0
  /\ mk = 0
  /\ moved_files = <<>>
  /\ out = <<>>
  /\ error = "none"
  /\ runs = 0
  /\ before = Snapshot

\* ---------------------------------------------------------- organize_files
\* What print() has written: one record per line.
Line(kind, name, cat) == [kind |-> kind, name |-> name, cat |-> cat]

\* A slip: the existence check is left out.
DirectoryNeverMissing == FALSE

\* `if not self.directory.exists()`
DirectoryMissing == ~exists

\* A slip: the result is built from the table's keys alone.
ResultKeysTableOnly ==
  {self_file_extensions.keys[i] : i \in 1..Len(self_file_extensions.keys)}

\* The keys of the fresh result: list(self._file_extensions.keys()) + ['Other'].
ResultKeys ==
  {self_file_extensions.keys[i] : i \in 1..Len(self_file_extensions.keys)} \cup {"Other"}

\* A slip: every direct child is taken, directories too.
is_file_any(n) == TRUE

\* `f.is_file()` on a direct child.
is_file(n) == top[n].kind = "file"

\* A slip: the early return for an empty list is left out.
NoFilesNever(fl) == FALSE

\* `if not files`
NoFiles(fl) == fl = <<>>

\* A slip: the folders are created in a dry run too.
ProvisionAlways(dry) == TRUE

\* `if not dry_run`, before the loop.
ProvisionFirst(dry) == ~dry

\* A slip: no folder is made for Other.
categoriesTableOnly == self_file_extensions.keys

\* The categories create_category_folders walks through.
categories == Append(self_file_extensions.keys, "Other")

\* The category whose folder is the destination of a file.
DestCategory(n) == categorize_file(n)

\* A call begins; the caller picks the mode.
Call(dry) ==
  /\ caller = "api"
  /\ pc \in {"idle", "returned", "raised"}
  /\ runs < MaxRuns
  /\ pc' = "check"
  /\ dry_run' = dry
  /\ runs' = runs + 1
  /\ before' = Snapshot
  /\ files' = <<>>
  /\ idx' = 0
  /\ mk' = 0
  /\ moved_files' = <<>>
  /\ out' = <<>>
  /\ error' = "none"
  /\ ret' = "none"
  /\ UNCHANGED <<fs, tbl, classified, cli>>
  /\ UNCHANGED kept

\* The existence check, then the fresh result.
CheckExists ==
  /\ pc = "check"
  /\ IF DirectoryMissing
     THEN /\ pc' = "raised"
          /\ error' = "FileNotFoundError"
          /\ UNCHANGED moved_files
     ELSE /\ pc' = "enumerate"
          /\ moved_files' = [c \in ResultKeys |-> <<>>]
          /\ UNCHANGED error
  /\ UNCHANGED <<fs, dry_run, files, idx, mk, out, runs, before, tbl, classified, ret, cli>>
  /\ UNCHANGED kept

\* `files = [f for f in self.directory.iterdir() if f.is_file()]`, in whatever order
\* the filesystem lists them, and the early return when there are none.
\* iterdir() on a directory that does not exist raises FileNotFoundError.
Enumerate ==
  /\ pc = "enumerate"
  /\ IF ~exists
     THEN /\ pc' = "raised"
          /\ error' = "FileNotFoundError(iterdir)"
          /\ UNCHANGED <<files, idx, mk, out, ret>>
     ELSE \E order \in Orders({n \in TopNames : top[n] # Absent /\ is_file(n)}) :
            /\ files' = order
            /\ UNCHANGED error
            /\ IF NoFiles(order)
               THEN /\ out' = Append(out, Line("none", <<>>, ""))
                    /\ pc' = "returned"
                    /\ UNCHANGED <<idx, mk, ret>>
               ELSE /\ out' = Append(out, Line("found", <<>>, ""))
                    /\ idx' = 1
                    /\ mk' = 1
                    /\ pc' = IF ProvisionFirst(dry_run) THEN "provision" ELSE "loop"
                    /\ ret' = IF ProvisionFirst(dry_run) THEN "loop" ELSE ret
  /\ UNCHANGED <<fs, dry_run, moved_files, runs, before, tbl, classified, cli>>
  /\ UNCHANGED kept

\* One step of create_category_folders: folder_path.mkdir(exist_ok=True) and the
\* line it prints.  mkdir raises FileNotFoundError when the directory itself is
\* missing, passes over a folder that is there, raises FileExistsError when the
\* name is taken by something that is no directory, and otherwise creates the
\* folder or fails as the filesystem decides.  After the last folder the
\* method returns to its caller.
NameTaken(c) == \E n \in TopNames : top[n] # Absent /\ Join(n) = c

MkdirDone(c) ==
  /\ out' = Append(out, Line("created", <<>>, c))
  /\ mk' = mk + 1
  /\ pc' = IF mk = Len(categories) THEN ret ELSE "provision"
  /\ UNCHANGED error

\* A slip: a folder that cannot be made is passed over and the run goes on.
MkdirRaisesSwallowed(e) ==
  /\ mk' = mk + 1
  /\ pc' = IF mk = Len(categories) THEN ret ELSE "provision"
  /\ UNCHANGED <<folders, out, error>>

\* mkdir raises: nothing in create_category_folders or organize_files catches
\* it, so the call ends with the exception.
MkdirRaises(e) ==
  /\ pc' = "raised"
  /\ error' = e
  /\ UNCHANGED <<folders, out, mk>>

\* A slip: mkdir() without exist_ok=True raises on a folder that is there.
MkdirExistingRaises(c) == MkdirRaises("FileExistsError")

\* mkdir(exist_ok=True) on a folder that is there.
MkdirExisting(c) ==
  /\ UNCHANGED folders
  /\ MkdirDone(c)

Mkdir ==
  /\ pc = "provision"
  /\ LET c == categories[mk]
     IN \/ /\ ~exists
           /\ MkdirRaises("FileNotFoundError")
        \/ /\ exists
           /\ c \in folders
           /\ MkdirExisting(c)
        \/ /\ exists
           /\ c \notin folders
           /\ NameTaken(c)
           /\ MkdirRaises("FileExistsError")
        \/ /\ exists
           /\ c \notin folders
           /\ ~NameTaken(c)
           /\ folders' = folders \cup {c}
           /\ MkdirDone(c)
        \/ /\ exists
           /\ c \notin folders
           /\ ~NameTaken(c)
           /\ MkdirRaises("PermissionError")
  /\ UNCHANGED <<exists, top, inDir, nested, inSub, dry_run, files, idx, moved_files,
                 runs, before, tbl, classified, ret, cli>>
  /\ UNCHANGED kept

\* What shutil.move(src, dst) can do with dst = <directory>/<c>/<n>:
\* written: the file is now at the destination; removed: it is gone from its
\* original place; raises: the exception it ends with.
\*   - the folder <c> is missing: nothing can be written;
\*   - dst is a directory: the real destination is dst/<n>, and shutil.Error is
\*     raised when that exists;
\*   - otherwise os.rename moves the file (replacing a file at dst); when rename
\*     fails the file is copied and the original unlinked, and either of the two
\*     may fail.
MoveOutcome(w, r, e) == [written |-> w, removed |-> r, raises |-> e]

\* A slip: shutil.copy in the place of shutil.move, the original stays.
shutil_copy(c, n) ==
  IF c \notin folders THEN {MoveOutcome(FALSE, FALSE, "FileNotFoundError")}
  ELSE {MoveOutcome(TRUE, FALSE, "none")}

shutil_move(c, n) ==
  IF c \notin folders THEN {MoveOutcome(FALSE, FALSE, "FileNotFoundError")}
  ELSE IF inDir[c][n] = Dir /\ nested[c][n] # Absent
  THEN {MoveOutcome(FALSE, FALSE, "shutil.Error")}
  ELSE {MoveOutcome(TRUE, TRUE, "none"),
        MoveOutcome(TRUE, FALSE, "PermissionError"),
        MoveOutcome(FALSE, FALSE, "PermissionError")}

\* A slip: the append after the move is missing.
RecordsNever(r) == FALSE

\* A slip: the name is appended whether or not the move succeeded.
RecordsAlways(r) == TRUE

\* `moved_files[category].append(file_path.name)` runs when shutil.move returned.
Records(r) == r.raises = "none"

\* A slip: the handler catches shutil.Error alone.
CaughtShutilErrorOnly(e) == e = "shutil.Error"

\* `except Exception`: every exception the loop body can raise is one.
Caught(e) == e \in {"PermissionError", "FileNotFoundError", "shutil.Error", "KeyError"}

\* The exception of one pass of the loop body: that of the move, or the KeyError
\* of the append.
BodyRaises(r, c) ==
  IF Records(r) /\ c \notin DOMAIN moved_files THEN "KeyError" ELSE r.raises

\* A slip: the loop steps over every other file.
NextIndexSkips(i) == i + 2

\* `for file_path in files`: the loop goes on with the next file of the list.
NextIndex(i) == i + 1

\* One pass of the loop over files.
MoveFile ==
  /\ pc = "loop"
  /\ idx <= Len(files)
  /\ LET n == files[idx]
         c == DestCategory(n)
     IN \/ /\ dry_run
           /\ UNCHANGED <<top, inDir, nested, error>>
           /\ IF c \in DOMAIN moved_files
              THEN /\ moved_files' = [moved_files EXCEPT ![c] = Append(@, n)]
                   /\ out' = Append(out, Line("would", n, c))
              ELSE /\ out' = Append(out, Line("error", n, c))
                   /\ UNCHANGED moved_files
           /\ idx' = NextIndex(idx)
           /\ pc' = "loop"
        \/ /\ ~dry_run
           /\ \E r \in shutil_move(c, n) :
                LET e == BodyRaises(r, c)
                IN /\ top' = IF r.removed THEN [top EXCEPT ![n] = Absent] ELSE top
                   /\ inDir' = IF r.written /\ inDir[c][n] # Dir
                               THEN [inDir EXCEPT ![c][n] = top[n]] ELSE inDir
                   /\ nested' = IF r.written /\ inDir[c][n] = Dir
                                THEN [nested EXCEPT ![c][n] = top[n]] ELSE nested
                   /\ moved_files' = IF Records(r) /\ c \in DOMAIN moved_files
                                     THEN [moved_files EXCEPT ![c] = Append(@, n)]
                                     ELSE moved_files
                   /\ IF e = "none"
                      THEN /\ out' = Append(out, Line("moved", n, c))
                           /\ idx' = NextIndex(idx)
                           /\ pc' = "loop"
                           /\ UNCHANGED error
                      ELSE IF Caught(e)
                      THEN /\ out' = Append(out, Line("error", n, c))
                           /\ idx' = NextIndex(idx)
                           /\ pc' = "loop"
                           /\ UNCHANGED error
                      ELSE /\ pc' = "raised"
                           /\ error' = e
                           /\ UNCHANGED <<out, idx>>
  /\ UNCHANGED <<exists, folders, inSub, dry_run, files, mk, runs, before, tbl, classified, ret,
                 cli>>
  /\ UNCHANGED kept

\* `return moved_files` after the loop.
Return ==
  /\ pc = "loop"
  /\ idx > Len(files)
  /\ pc' = "returned"
  /\ UNCHANGED <<fs, dry_run, files, idx, mk, moved_files, out, error, runs, before, tbl,
                 classified, ret, cli>>
  /\ UNCHANGED kept

Next ==
  \/ \E dry \in BOOLEAN : Call(dry)
  \/ CheckExists
  \/ Enumerate
  \/ Mkdir
  \/ MoveFile
  \/ Return

Spec == Init /\ [][Next]_vars

\* An existing directory whose category folders, where they exist, are empty,
\* and which holds up to MaxFiles regular files, two of one category among them.
InitLoop ==
  /\ InitTable
  /\ kept = NothingKept
  /\ arg = <<>>
  /\ category = ""
  /\ ret = "none"
  /\ caller = "api"
  /\ create_folders = FALSE
  /\ exit_code = "none"
  /\ exists = TRUE
  /\ \E F \in SUBSET LoopNames, pre \in PreFolders :
       /\ Cardinality(F) <= MaxFiles
       /\ \A n \in F : Join(n) \notin pre
       /\ folders = pre
       /\ top = [n \in TopNames |-> IF n \in F THEN TopFile(n) ELSE Absent]
  /\ inSub = Absent
  /\ inDir = [c \in Categories |-> [n \in TopNames |-> Absent]]
  /\ nested = [c \in Categories |-> [n \in TopNames |-> Absent]]
  /\ pc = "idle"
  /\ dry_run = FALSE
  /\ files = <<>>
  /\ idx = 0
  /\ mk = 0
  /\ moved_files = <<>>
  /\ out = <<>>
  /\ error = "none"
  /\ runs = 0
  /\ before = Snapshot

SpecLoop == InitLoop /\ [][Next]_vars

\* The caller keeps what the call that ended returned or raised, together with
\* what it printed and listed, and calls organize_files again at once.
CallAgain(dry) ==
  /\ caller = "api"
  /\ pc \in {"returned", "raised"}
  /\ runs >= 1
  /\ runs < 1 + MaxAgain
  /\ kept' = [run |-> runs, dry_run |-> dry_run, pc |-> pc, error |-> error,
              files |-> files, moved_files |-> moved_files, out |-> out,
              before |-> before]
  /\ pc' = "check"
  /\ dry_run' = dry
  /\ runs' = runs + 1
  /\ before' = Snapshot
  /\ files' = <<>>
  /\ idx' = 0
  /\ mk' = 0
  /\ moved_files' = <<>>
  /\ out' = <<>>
  /\ error' = "none"
  /\ ret' = "none"
  /\ UNCHANGED <<fs, tbl, classified, cli>>

NextAgain ==
  \/ \E dry \in BOOLEAN : Call(dry)
  \/ \E dry \in BOOLEAN : CallAgain(dry)
  \/ CheckExists
  \/ Enumerate
  \/ Mkdir
  \/ MoveFile
  \/ Return

SpecAgain == InitLoop /\ [][NextAgain]_vars

\* -------------------------------------------------- create_category_folders
\* A caller calls create_category_folders itself; what it prints adds to what
\* earlier calls printed.
CallFolders ==
  /\ caller = "api"
  /\ pc \in {"idle", "created", "raised"}
  /\ runs < MaxCalls
  /\ pc' = "provision"
  /\ mk' = 1
  /\ ret' = "created"
  /\ runs' = runs + 1
  /\ before' = Snapshot
  /\ error' = "none"
  /\ UNCHANGED <<fs, dry_run, files, idx, moved_files, out, tbl, classified, cli>>
  /\ UNCHANGED kept

NextFolders ==
  \/ CallFolders
  \/ Mkdir

SpecFolders == Init /\ [][NextFolders]_vars

\* ---------------------------------------------------------- categorize_file
\* A directory that exists and holds nothing.
EmptyFs ==
  /\ exists = TRUE
  /\ top = [n \in TopNames |-> Absent]
  /\ folders = {}
  /\ inDir = [c \in Categories |-> [n \in TopNames |-> Absent]]
  /\ nested = [c \in Categories |-> [n \in TopNames |-> Absent]]
  /\ inSub = Absent

\* No call of organize_files has been made.
NoRun ==
  /\ dry_run = FALSE
  /\ files = <<>>
  /\ idx = 0
  /\ mk = 0
  /\ moved_files = <<>>
  /\ out = <<>>
  /\ error = "none"
  /\ runs = 0
  /\ ret = "none"
  /\ create_folders = FALSE
  /\ exit_code = "none"

\* A caller is about to hand one filename to categorize_file.
InitCat ==
  /\ InitTable
  /\ kept = NothingKept
  /\ EmptyFs
  /\ NoRun
  /\ caller = "api"
  /\ before = Snapshot
  /\ arg \in Names
  /\ category = ""
  /\ pc = "categorize"

\* organizer.categorize_file(arg)
Categorize ==
  /\ pc = "categorize"
  /\ category' = categorize_file(arg)
  /\ pc' = "categorized"
  /\ UNCHANGED <<fs, dry_run, files, idx, mk, moved_files, out, error, runs, before, tbl,
                 arg, ret, cli>>
  /\ UNCHANGED kept

NextCat == Categorize

SpecCat == InitCat /\ [][NextCat]_vars

\* ================================================================ claims
\* The eight category names, written out.
AllCategoryNames == {"Images", "Documents", "Videos", "Audio", "Archives", "Code",
                     "Executables", "Other"}

\* The category the tests and the spec's scenarios expect for each name.
ExpectedCategory(n) ==
  CASE n = aJPG -> "Images"
    [] n = bTxt -> "Documents"
    [] n = dPdf -> "Documents"
    [] OTHER -> "Other"

\* The regular files that lay directly in the directory when the call began.
FilesBefore == {n \in TopNames : before.top[n].kind = "file"}

\* The elements of a sequence.
Range(s) == {s[i] : i \in 1..Len(s)}

\* The lines printed for the files of the loop, in order.
IsAttempt(l) == l.kind \in {"moved", "error", "would"}
AttemptLines == SelectSeq(out, IsAttempt)

\* The category folders that hold the file that lay at <directory>/<n>.
HoldersOf(n) == {c \in Categories : inDir[c][n] = TopFile(n) \/ nested[c][n] = TopFile(n)}

\* How often a name is listed in a sequence.
Count(s, n) == Cardinality({i \in 1..Len(s) : s[i] = n})

\* C1 (as claimed): after a live run returns, every regular file that lay in the
\* directory is either under exactly one category folder and gone from its
\* original place, or still at its original place, under no category folder,
\* with its move reported as failed; never both, never neither.
C1_LiveRunCompleteness ==
  (pc = "returned" /\ ~dry_run) =>
    \A n \in FilesBefore :
      \/ /\ top[n] = Absent
         /\ Cardinality(HoldersOf(n)) = 1
      \/ /\ top[n] = TopFile(n)
         /\ HoldersOf(n) = {}
         /\ \E i \in 1..Len(out) : out[i].kind = "error" /\ out[i].name = n

\* C2: a dry run changes nothing on the filesystem at any point, creates no
\* category folder, and its result lists every enumerated file exactly once,
\* under its category.
C2_DryRunPure ==
  dry_run =>
    /\ Snapshot = before
    /\ folders = before.folders
    /\ pc = "returned" =>
         \A n \in FilesBefore :
           \A c \in AllCategoryNames :
             Count(moved_files[c], n) = IF c = ExpectedCategory(n) THEN 1 ELSE 0

C2_Witness ==
  /\ pc = "returned"
  /\ dry_run
  /\ Len(files) = 2
  /\ folders = {}
  /\ moved_files["Images"] = <<aJPG>>
  /\ top[aJPG] = TopFile(aJPG)

\* C3: a failed move never makes organize_files raise: an exception leaves the
\* call only before the loop; after a live run returns, every enumerated file
\* has been attempted, in order; a file whose move failed is still at its
\* original place and is listed nowhere in the result.
C3_MoveFailureIsolated ==
  /\ pc = "raised" => mk <= Len(categories)
  /\ (pc = "returned" /\ ~dry_run) =>
       /\ Len(AttemptLines) = Len(files)
       /\ \A i \in 1..Len(files) :
            /\ AttemptLines[i].name = files[i]
            /\ AttemptLines[i].kind = "error" =>
                 /\ top[files[i]] = before.top[files[i]]
                 /\ \A c \in DOMAIN moved_files : Count(moved_files[c], files[i]) = 0

C3_Witness ==
  /\ pc = "returned"
  /\ ~dry_run
  /\ Len(files) = 2
  /\ Len(AttemptLines) = 2
  /\ AttemptLines[1].kind = "error"
  /\ AttemptLines[2].kind = "moved"
  /\ top[files[1]] = TopFile(files[1])
  /\ top[files[2]] = Absent

\* C4 (as claimed): in a live run every name listed under category c is a file
\* that has been moved to <directory>/c/<name>.
C4_RecordedAtDestination ==
  ~dry_run =>
    \A c \in DOMAIN moved_files : \A n \in Range(moved_files[c]) :
      /\ top[n] = Absent
      /\ inDir[c][n] = TopFile(n)

\* C4 (amended): in a live run every name listed under category c is a file
\* that is gone from its original place and lies in <directory>/c/: at
\* <directory>/c/<name>, or inside it when that path was already a directory.
C4_RecordedOnlyAfterMove ==
  ~dry_run =>
    \A c \in DOMAIN moved_files : \A n \in Range(moved_files[c]) :
      /\ top[n] = Absent
      /\ IF before.inDir[c][n] = Dir
         THEN inDir[c][n] = Dir /\ nested[c][n] = TopFile(n)
         ELSE inDir[c][n] = TopFile(n)

C4_Witness ==
  /\ pc = "loop"
  /\ ~dry_run
  /\ idx = 2
  /\ Len(files) = 2
  /\ \E c \in DOMAIN moved_files : moved_files[c] = <<files[1]>>

\* C5: on a directory that does not exist the call ends with FileNotFoundError
\* straight after the existence check, in either mode: nothing is enumerated,
\* nothing is printed, no result exists, no folder is created, nothing moves.
C5_MissingDirectoryRaises ==
  (~before.exists /\ pc # "idle") =>
    /\ pc \in {"check", "raised"}
    /\ pc = "raised" => error = "FileNotFoundError"
    /\ files = <<>>
    /\ out = <<>>
    /\ moved_files = <<>>
    /\ folders = {}
    /\ Snapshot = before

C5_Witness ==
  /\ pc = "raised"
  /\ ~exists
  /\ error = "FileNotFoundError"
  /\ dry_run

\* The "Created folder" lines printed before position i of the output.
CreatedBefore(i) == {out[j].cat : j \in {k \in 1..(i-1) : out[k].kind = "created"}}

\* C6: in a live run the loop over the files is reached only with all eight
\* category folders in place, and every attempt to move a file comes after the
\* provisioning of every category.
C6_ProvisionedBeforeMove ==
  ~dry_run =>
    /\ pc = "loop" => AllCategoryNames \subseteq folders
    /\ \A i \in 1..Len(out) :
         out[i].kind \in {"moved", "error"} =>
           /\ CreatedBefore(i) = AllCategoryNames
           /\ out[i].cat \in folders

C6_Witness ==
  /\ pc = "loop"
  /\ ~dry_run
  /\ before.folders = {}
  /\ folders = AllCategoryNames
  /\ \E i \in 1..Len(out) : out[i].kind = "moved" /\ out[i].cat = "Other"

\* Every key of a result maps to the empty sequence.
AllEmpty(mf) == \A c \in DOMAIN mf : mf[c] = <<>>

\* C7 (as claimed): a live run on an existing directory without regular files
\* creates all eight category folders and returns an all-empty result.
C7_EmptyRunCreatesFolders ==
  (pc = "returned" /\ ~dry_run /\ FilesBefore = {}) =>
    /\ AllCategoryNames \subseteq folders
    /\ DOMAIN moved_files = AllCategoryNames
    /\ AllEmpty(moved_files)

\* C7 (amended): a live run on an existing directory without regular files
\* returns an all-empty result over the eight categories and creates no folder:
\* it leaves the filesystem as it was.
C7_EmptyRunCreatesNothing ==
  (pc \in {"returned", "raised", "provision", "loop"} /\ ~dry_run /\ before.exists
     /\ FilesBefore = {}) =>
    /\ pc = "returned"
    /\ folders = before.folders
    /\ Snapshot = before
    /\ DOMAIN moved_files = AllCategoryNames
    /\ AllEmpty(moved_files)

C7_Witness ==
  /\ pc = "returned"
  /\ ~dry_run
  /\ exists
  /\ FilesBefore = {}
  /\ folders = {}
  /\ top[subDir] = Dir
  /\ out = <<Line("none", <<>>, "")>>

\* C8: every result, while it is built and when it is returned, in either mode,
\* has exactly the eight category names as its keys; a run that finds no
\* regular file returns with every key empty and without an exception.
C8_ResultKeys ==
  /\ pc \in {"enumerate", "provision", "loop", "returned"} =>
       DOMAIN moved_files = AllCategoryNames
  /\ (pc \in {"provision", "loop", "returned", "raised"} /\ before.exists /\ FilesBefore = {}) =>
       /\ pc = "returned"
       /\ error = "none"
       /\ AllEmpty(moved_files)

C8_Witness ==
  /\ pc = "returned"
  /\ ~dry_run
  /\ DOMAIN moved_files = AllCategoryNames
  /\ \E i \in 1..Len(out) : out[i].kind = "error"
  /\ \E c \in DOMAIN moved_files : moved_files[c] # <<>>

\* The subdirectory subDir and the file in it are as they were.
SubdirUntouched ==
  /\ top[subDir] = before.top[subDir]
  /\ inSub = before.inSub
  /\ subDir \notin Range(files)
  /\ \A c \in DOMAIN moved_files : subDir \notin Range(moved_files[c])
  /\ \A c \in Categories : inDir[c][subDir] = Absent /\ nested[c][subDir] = Absent

\* The category folders that were there are still there, and so is every
\* directory in them.
FoldersKept ==
  /\ before.folders \subseteq folders
  /\ \A c \in Categories : \A n \in TopNames :
       /\ before.inDir[c][n] = Dir => inDir[c][n] = Dir
       /\ before.nested[c][n] # Absent => nested[c][n] = before.nested[c][n]

\* C9 (as claimed): the subdirectories that were under the directory are never
\* listed, moved or changed, and every file inside them stays where it was.
C9_SubdirectoriesUntouched ==
  /\ SubdirUntouched
  /\ FoldersKept
  /\ \A c \in Categories : \A n \in TopNames :
       before.inDir[c][n].kind = "file" => inDir[c][n] = before.inDir[c][n]

\* C9 (amended): as claimed, except that a file lying at <directory>/<c>/<n> in
\* a category folder is replaced when the run moves the regular file <n> of
\* category c there.
C9_SubdirectoriesUntouchedButOverwrite ==
  /\ SubdirUntouched
  /\ FoldersKept
  /\ \A c \in Categories : \A n \in TopNames :
       before.inDir[c][n].kind = "file" =>
         \/ inDir[c][n] = before.inDir[c][n]
         \/ /\ ~dry_run
            /\ n \in FilesBefore
            /\ c = ExpectedCategory(n)
            /\ inDir[c][n] = TopFile(n)
            /\ \E i \in 1..Len(out) : out[i].kind \in {"moved", "error"} /\ out[i].name = n

C9_Witness ==
  /\ pc = "returned"
  /\ ~dry_run
  /\ top[subDir] = Dir
  /\ inSub = File("sub", "", bTxt)
  /\ inDir["Videos"][aJPG] = File("cat", "Videos", aJPG)
  /\ moved_files["Images"] = <<aJPG>>
  /\ moved_files["Documents"] = <<bTxt>>

RECURSIVE SumLen(_, _)
\* The sum of the lengths of the sequences of a result over a set of keys.
SumLen(mf, keys) ==
  IF keys = {} THEN 0
  ELSE LET k == CHOOSE x \in keys : TRUE IN Len(mf[k]) + SumLen(mf, keys \ {k})

\* Every move of the run succeeded.
NoMoveFailed == \A i \in 1..Len(out) : out[i].kind # "error"

\* What C10 says of the result: each file is listed once under its category and
\* nowhere else, and the lengths add up to the number of files.
ListedOnce ==
  /\ \A n \in FilesBefore : \A c \in AllCategoryNames :
       Count(moved_files[c], n) = IF c = ExpectedCategory(n) THEN 1 ELSE 0
  /\ SumLen(moved_files, DOMAIN moved_files) = Cardinality(FilesBefore)
  /\ Len(files) = Cardinality(FilesBefore)

\* C10 (as claimed): after a live run in which every move succeeded, every
\* enumerated file is at <directory>/<category>/<name>, gone from its original
\* place, and listed once, under its category.
C10_AllMovedToCategory ==
  (pc = "returned" /\ ~dry_run /\ NoMoveFailed) =>
    /\ ListedOnce
    /\ \A n \in FilesBefore :
         /\ top[n] = Absent
         /\ inDir[ExpectedCategory(n)][n] = TopFile(n)

\* C10 (amended): as claimed, except that a file whose destination
\* <directory>/<category>/<name> was already a directory ends inside it.
C10_AllMovedIntoCategory ==
  (pc = "returned" /\ ~dry_run /\ NoMoveFailed) =>
    /\ ListedOnce
    /\ \A n \in FilesBefore :
         LET c == ExpectedCategory(n)
         IN /\ top[n] = Absent
            /\ HoldersOf(n) = {c}
            /\ IF before.inDir[c][n] = Dir
               THEN inDir[c][n] = Dir /\ nested[c][n] = TopFile(n)
               ELSE inDir[c][n] = TopFile(n)

C10_Witness ==
  /\ pc = "returned"
  /\ ~dry_run
  /\ NoMoveFailed
  /\ FilesBefore = {aJPG, cNoExt}
  /\ inDir["Images"][aJPG] = TopFile(aJPG)
  /\ inDir["Other"][cNoExt] = TopFile(cNoExt)
  /\ top[aJPG] = Absent

\* ------------------------------------------------------- file_extensions
\* What a caller does to the value it got from the property.
NewKeys == {"New"}
MutatedKeys == {"Images", "Code", "New"}
AddedExts == {".js", ".zzz"}
RemovedExts == {".jpg", ".js", ".zzz"}

\* The filenames the caller asks categorize_file about.
ProbeNames == FileNames \cup {<<"c", ".", "j", "s">>, <<"c", ".", "z", "z", "z">>}

\* A caller holds a fresh organizer.
InitProperty ==
  /\ InitTable
  /\ kept = NothingKept
  /\ EmptyFs
  /\ NoRun
  /\ caller = "api"
  /\ before = Snapshot
  /\ arg = <<>>
  /\ category = ""
  /\ pc = "table"

\* A slip: the dict is rebuilt but each list is handed out itself, without
\* v.copy().
SharedAfterReadNoCopy == DOMAIN self_file_extensions.exts

\* The lists the returned dict has in common with the organizer's: none, each
\* value is v.copy().
SharedAfterRead == {}

\* The property: {k: v.copy() for k, v in self._file_extensions.items()}, a new
\* dict with the same keys in the same order.
ReadFileExtensions ==
  /\ pc \in {"table", "read", "mutated", "categorized"}
  /\ returned' = [keys |-> self_file_extensions.keys,
                  exts |-> [k \in DOMAIN self_file_extensions.exts |->
                              self_file_extensions.exts[k]]]
  /\ shared' = SharedAfterRead
  /\ pc' = "read"
  /\ UNCHANGED <<fs, dry_run, files, idx, mk, moved_files, out, error, runs, before,
                 self_file_extensions, classified, ret, cli>>
  /\ UNCHANGED kept

\* The caller has a returned value in hand.
HoldsReturned == pc \in {"read", "mutated", "categorized"} /\ returned.keys # <<>>

\* returned[k] = [e]: the returned dict gets a key, or a key of it a new list.
AddCategory(k, e) ==
  /\ HoldsReturned
  /\ returned' = [keys |-> IF k \in DOMAIN returned.exts THEN returned.keys
                           ELSE Append(returned.keys, k),
                  exts |-> (k :> {e}) @@ returned.exts]
  /\ shared' = shared \ {k}
  /\ pc' = "mutated"
  /\ UNCHANGED <<fs, dry_run, files, idx, mk, moved_files, out, error, runs, before,
                 self_file_extensions, classified, ret, cli>>
  /\ UNCHANGED kept

\* A list of the returned dict is changed in place; when it is the organizer's
\* own list, the organizer's table changes with it.
ChangeList(k, new) ==
  /\ HoldsReturned
  /\ k \in DOMAIN returned.exts
  /\ returned' = [returned EXCEPT !.exts[k] = new]
  /\ self_file_extensions' = IF k \in shared
                             THEN [self_file_extensions EXCEPT !.exts[k] = new]
                             ELSE self_file_extensions
  /\ pc' = "mutated"
  /\ UNCHANGED <<fs, dry_run, files, idx, mk, moved_files, out, error, runs, before,
                 shared, classified, ret, cli>>
  /\ UNCHANGED kept

\* returned[k].append(e)
AddExtension(k, e) ==
  /\ k \in DOMAIN returned.exts
  /\ ChangeList(k, returned.exts[k] \cup {e})

\* returned[k].remove(e)
RemoveExtension(k, e) ==
  /\ k \in DOMAIN returned.exts
  /\ e \in returned.exts[k]
  /\ ChangeList(k, returned.exts[k] \ {e})

\* The caller picks a filename to ask categorize_file about.
Ask(n) ==
  /\ pc \in {"table", "read", "mutated", "categorized"}
  /\ arg' = n
  /\ pc' = "categorize"
  /\ UNCHANGED <<fs, dry_run, files, idx, mk, moved_files, out, error, runs, before,
                 tbl, category, ret, cli>>
  /\ UNCHANGED kept

NextProperty ==
  \/ ReadFileExtensions
  \/ \E k \in NewKeys \cup MutatedKeys, e \in AddedExts : AddCategory(k, e)
  \/ \E k \in MutatedKeys, e \in AddedExts : AddExtension(k, e)
  \/ \E k \in MutatedKeys, e \in RemovedExts : RemoveExtension(k, e)
  \/ \E n \in ProbeNames : Ask(n)
  \/ Categorize

SpecProperty == InitProperty /\ [][NextProperty]_vars

\* ----------------------------------------------------------- print_summary
\* A line of the summary that carries a number.
CountLine(kind, c, n) == [kind |-> kind, name |-> <<>>, cat |-> c, n |-> n]

\* A slip: the `if files:` is missing, every category is listed.
ListsCategoryAlways(fl) == TRUE

\* `if files:`
ListsCategory(fl) == fl # <<>>

\* The keys of a result in the order of the dict.
SummaryKeys(mf) ==
  LET InResult(c) == c \in DOMAIN mf IN SelectSeq(categories, InResult)

RECURSIVE SummaryBody(_, _)
\* The loop of print_summary over moved_files.items(): for a category that is
\* listed, its count and then its filenames.
SummaryBody(mf, keys) ==
  IF keys = <<>> THEN <<>>
  ELSE LET c == Head(keys)
       IN (IF ListsCategory(mf[c])
           THEN <<CountLine("count", c, Len(mf[c]))>>
                \o [i \in 1..Len(mf[c]) |-> Line("listed", mf[c][i], c)]
           ELSE <<>>)
          \o SummaryBody(mf, Tail(keys))

RECURSIVE total_files(_, _)
\* total_files: `total_files += len(files)` for each category that is listed.
total_files(mf, keys) ==
  IF keys = <<>> THEN 0
  ELSE (IF ListsCategory(mf[Head(keys)]) THEN Len(mf[Head(keys)]) ELSE 0)
       + total_files(mf, Tail(keys))

\* What print_summary prints: the heading, the categories, the total.
print_summary(mf) ==
  <<Line("summary", <<>>, "")>>
  \o SummaryBody(mf, SummaryKeys(mf))
  \o <<CountLine("total", "", total_files(mf, SummaryKeys(mf)))>>

\* organizer.print_summary(moved_files) on a result the caller has in hand.
PrintSummary ==
  /\ pc = "returned"
  /\ out' = out \o print_summary(moved_files)
  /\ pc' = "summarized"
  /\ UNCHANGED <<fs, dry_run, files, idx, mk, moved_files, error, runs, before, tbl,
                 classified, ret, cli>>
  /\ UNCHANGED kept

\* The results handed to print_summary: every category is a key, and some of
\* them list names.
SummaryCategories == {"Images", "Documents", "Other"}
SummaryNames == {aJPG, bTxt}
SummaryLists == UNION {[1..k -> SummaryNames] : k \in 0..MaxListed}

\* A caller has a result in hand.
InitSummary ==
  /\ InitTable
  /\ kept = NothingKept
  /\ EmptyFs
  /\ caller = "api"
  /\ before = Snapshot
  /\ arg = <<>>
  /\ category = ""
  /\ dry_run \in BOOLEAN
  /\ files = <<>>
  /\ idx = 0
  /\ mk = 0
  /\ out = <<>>
  /\ error = "none"
  /\ runs = 1
  /\ ret = "none"
  /\ create_folders = FALSE
  /\ exit_code = "none"
  /\ \E f \in [SummaryCategories -> SummaryLists] :
       moved_files = [c \in Categories |-> IF c \in SummaryCategories THEN f[c] ELSE <<>>]
  /\ pc = "returned"

NextSummary == PrintSummary

SpecSummary == InitSummary /\ [][NextSummary]_vars

\* -------------------------------------------------------------------- main
\* The command is about to be run on the directory.
InitMain ==
  /\ InitTable
  /\ kept = NothingKept
  /\ arg = <<>>
  /\ category = ""
  /\ ret = "none"
  /\ caller = "main"
  /\ create_folders = FALSE
  /\ exit_code = "none"
  /\ InitFs
  /\ pc = "idle"
  /\ dry_run = FALSE
  /\ files = <<>>
  /\ idx = 0
  /\ mk = 0
  /\ moved_files = <<>>
  /\ out = <<>>
  /\ error = "none"
  /\ runs = 0
  /\ before = Snapshot

\* main parses --dry-run and --create-folders, builds the organizer and calls
\* create_category_folders: in the `if args.create_folders` branch, or else
\* under `# Create folders first`.
MainStart(dry, cf) ==
  /\ caller = "main"
  /\ pc = "idle"
  /\ dry_run' = dry
  /\ create_folders' = cf
  /\ before' = Snapshot
  /\ pc' = "provision"
  /\ mk' = 1
  /\ ret' = "main"
  /\ UNCHANGED <<fs, files, idx, moved_files, out, error, runs, tbl, classified, caller,
                 exit_code>>
  /\ UNCHANGED kept

\* A slip: the `return` of the --create-folders branch is missing.
ReturnsAfterFoldersNever(cf) == FALSE

\* `if args.create_folders:` ends with `return`.
ReturnsAfterFolders(cf) == cf

\* The --create-folders branch after the folders are made: the message, and
\* main returns (None).
MainFoldersOnly ==
  /\ pc = "main"
  /\ ReturnsAfterFolders(create_folders)
  /\ out' = Append(out, Line("folders-created", <<>>, ""))
  /\ exit_code' = "None"
  /\ pc' = "exited"
  /\ UNCHANGED <<fs, dry_run, files, idx, mk, moved_files, error, runs, before, tbl,
                 classified, ret, caller, create_folders>>
  /\ UNCHANGED kept

\* moved_files = organizer.organize_files(dry_run=args.dry_run)
MainOrganize ==
  /\ pc = "main"
  /\ ~ReturnsAfterFolders(create_folders)
  /\ pc' = "check"
  /\ runs' = runs + 1
  /\ files' = <<>>
  /\ idx' = 0
  /\ mk' = 0
  /\ moved_files' = <<>>
  /\ ret' = "none"
  /\ UNCHANGED <<fs, dry_run, out, error, before, tbl, classified, cli>>
  /\ UNCHANGED kept

\* After print_summary: the dry-run notice, and main returns 0.
MainFinish ==
  /\ caller = "main"
  /\ pc = "summarized"
  /\ out' = IF dry_run THEN Append(out, Line("dry-run-notice", <<>>, "")) ELSE out
  /\ exit_code' = "0"
  /\ pc' = "exited"
  /\ UNCHANGED <<fs, dry_run, files, idx, mk, moved_files, error, runs, before, tbl,
                 classified, ret, caller, create_folders>>
  /\ UNCHANGED kept

\* `except Exception as e`: the message, and main returns 1.
MainExcept ==
  /\ caller = "main"
  /\ pc = "raised"
  /\ out' = Append(out, Line("Error", <<>>, ""))
  /\ exit_code' = "1"
  /\ pc' = "exited"
  /\ UNCHANGED <<fs, dry_run, files, idx, mk, moved_files, error, runs, before, tbl,
                 classified, ret, caller, create_folders>>
  /\ UNCHANGED kept

NextMain ==
  \/ \E dry \in BOOLEAN, cf \in BOOLEAN : MainStart(dry, cf)
  \/ Mkdir
  \/ MainFoldersOnly
  \/ MainOrganize
  \/ CheckExists
  \/ Enumerate
  \/ MoveFile
  \/ Return
  \/ PrintSummary
  \/ MainFinish
  \/ MainExcept

SpecMain == InitMain /\ [][NextMain]_vars

\* ------------------------------------------------- claims on categorize_file
\* The order in which the built-in table declares its categories.
DeclaredOrder == <<"Images", "Documents", "Videos", "Audio", "Archives", "Code",
                   "Executables">>

RECURSIVE FirstListing(_, _)
\* The first of these categories whose extension list holds ext; Other when
\* none does.
FirstListing(keys, ext) ==
  IF keys = <<>> THEN "Other"
  ELSE IF ext \in file_extensions[Head(keys)] THEN Head(keys)
  ELSE FirstListing(Tail(keys), ext)

\* C11: categorize_file can be applied to every filename; it returns the first
\* category, in the declared order, whose list holds the lower-cased extension
\* of the filename, Other when there is none, and it changes neither the table
\* nor the filesystem nor anything else.
C11_TotalPureFirstMatch ==
  /\ pc = "categorize" => categorize_file(arg) \in AllCategoryNames
  /\ pc = "categorized" =>
       /\ category = FirstListing(DeclaredOrder, get_file_extension(arg))
       /\ category \in AllCategoryNames
       /\ error = "none"
       /\ Snapshot = before
       /\ self_file_extensions = [keys |-> TableKeys, exts |-> file_extensions]
       /\ moved_files = <<>> /\ files = <<>> /\ out = <<>>

C11_Witness ==
  /\ pc = "categorized"
  /\ arg = <<"s", ".", "g", "z">>
  /\ category = "Archives"

\* The lower case of one character, as Unicode gives it.
LowerCase(ch) ==
  CASE ch = "C" -> "c" [] ch = "G" -> "g" [] ch = "J" -> "j" [] ch = "S" -> "s"
    [] ch = "Z" -> "z" [] OTHER -> ch

\* The upper case of one character, as Unicode gives it.
UpperChar(ch) ==
  IF \E i \in 1..Len(LowerChars) : LowerChars[i] = ch
  THEN UpperChars[CHOOSE i \in 1..Len(LowerChars) : LowerChars[i] = ch]
  ELSE IF ch = LongS THEN "S"
  ELSE ch

RECURSIVE CaseSpellings(_)
\* Every spelling of a text with each character as written, in upper case or
\* in lower case.
CaseSpellings(s) ==
  IF s = <<>> THEN {<<>>}
  ELSE {<<h>> \o t : h \in {Head(s), UpperChar(Head(s)), LowerCase(Head(s))},
                     t \in CaseSpellings(Tail(s))}

\* The same name with its extension in each of these spellings.
CaseVariants(name) ==
  {SubSeq(name, 1, Len(name) - Len(Suffix(name))) \o v : v \in CaseSpellings(Suffix(name))}

\* C12 (as claimed): a filename and the same name with its extension in upper
\* or mixed case have the same category.
C12_CaseInsensitive ==
  pc = "categorized" => \A v \in CaseVariants(arg) : categorize_file(v) = category

\* Lower-casing the upper case of each character gives its lower case, as it
\* does for every ASCII character.
CaseRoundTrips(s) == \A k \in 1..Len(s) : LowerCase(UpperChar(s[k])) = LowerCase(s[k])

\* C12 (amended): a filename whose extension is made of characters whose upper
\* case lower-cases back to their lower case has the same category as the same
\* name with its extension in upper or mixed case.
C12_CaseInsensitiveRoundTrip ==
  (pc = "categorized" /\ CaseRoundTrips(Suffix(arg))) =>
    \A v \in CaseVariants(arg) : categorize_file(v) = category

C12_Witness ==
  /\ pc = "categorized"
  /\ arg = <<"c", ".", "j", "s">>
  /\ category = "Code"
  /\ <<"c", ".", "J", "S">> \in CaseVariants(arg)
  /\ categorize_file(<<"c", ".", "J", "S">>) = "Code"

\* The text after the final '.' of a name; empty for a name without '.' and
\* for a dotfile without a further '.'.
FinalSegment(name) ==
  LET dots == {i \in 1..Len(name) : name[i] = "."}
  IN IF dots = {} \/ dots = {1} THEN <<>>
     ELSE SubSeq(name, (CHOOSE i \in dots : \A j \in dots : j <= i) + 1, Len(name))

\* C13: the category of a filename is a function of the text after its final
\* '.' alone: Other when that text is empty (no '.', a dotfile without a
\* further '.'), and otherwise the category that lists '.' followed by that
\* text in lower case, whatever the earlier dot-separated segments are.
C13_OnlyFinalSuffix ==
  pc = "categorized" =>
    category = IF FinalSegment(arg) = <<>> THEN "Other"
               ELSE FirstListing(DeclaredOrder, Join(<<".">> \o Lower(FinalSegment(arg))))

C13_Witness ==
  /\ pc = "categorized"
  /\ arg = <<"s", ".", "z", ".", "c">>
  /\ FinalSegment(arg) = <<"c">>
  /\ category = "Code"

\* ----------------------------------------- claims on create_category_folders
\* The lines create_category_folders has printed.
IsCreated(l) == l.kind = "created"
CreatedLines == SelectSeq(out, IsCreated)

\* No regular file has been moved, renamed or removed, and the folders there
\* were and what they hold are as they were when the call began.
OnlyFoldersAdded ==
  /\ top = before.top
  /\ inSub = before.inSub
  /\ inDir = before.inDir
  /\ nested = before.nested
  /\ before.folders \subseteq folders

\* C14 (as claimed): on an existing directory neither of two successive calls
\* raises an error, the second call leaves the state the first call left, with
\* one subdirectory for each table key and Other, and no call touches a
\* pre-existing folder, its contents or a regular file.
C14_Idempotent ==
  exists =>
    /\ pc # "raised"
    /\ OnlyFoldersAdded
    /\ (runs >= 1 /\ pc = "created") => folders = AllCategoryNames
    /\ (runs = 2 /\ pc = "created") => Snapshot = before

\* C14 (amended): when the first of two successive calls on an existing
\* directory raises no error, it leaves one subdirectory for each table key and
\* Other, and the second call, which begins in the state the first one left,
\* raises no error and changes nothing; whether or not a call raises, it touches no pre-existing folder, none of their contents
\* and no regular file.
C14_IdempotentAfterSuccess ==
  exists =>
    /\ OnlyFoldersAdded
    /\ (runs >= 1 /\ pc = "created") => folders = AllCategoryNames /\ error = "none"
    /\ (runs = 2 /\ before.folders = AllCategoryNames) =>
         /\ pc \in {"provision", "created"}
         /\ error = "none"
         /\ Snapshot = before

C14_Witness ==
  /\ runs = 2
  /\ pc = "created"
  /\ Len(CreatedLines) = 2 * Len(CategoryList)
  /\ top[aJPG] = TopFile(aJPG)
  /\ inDir["Documents"][bTxt] = File("cat", "Documents", bTxt)
  /\ folders = AllCategoryNames

\* ------------------------------------------------- claims on file_extensions
\* The table the organizer was built with.
OriginalTable == [keys |-> TableKeys, exts |-> file_extensions]

\* C15: whatever a caller reads from file_extensions and does to what it got
\* (a new category, an extension added to or removed from a list), the
\* organizer's table stays the one it was built with, a read returns that
\* table, and categorize_file answers for every filename as it did before.
C15_TableNeverChanged ==
  /\ self_file_extensions = OriginalTable
  /\ pc = "read" => returned = OriginalTable
  /\ \A n \in ProbeNames :
       categorize_file(n) = FirstListing(DeclaredOrder, get_file_extension(n))
  /\ pc = "categorized" => category = FirstListing(DeclaredOrder, get_file_extension(arg))

C15_Witness ==
  /\ pc = "categorized"
  /\ "New" \in DOMAIN returned.exts
  /\ ".jpg" \notin returned.exts["Images"]
  /\ ".js" \in returned.exts["Images"]
  /\ arg = aJPG
  /\ category = "Images"

\* --------------------------------------------------- claims on print_summary
\* The lines of one kind printed for one category, in order.
LinesOf(printed, kind, c) ==
  LET Wanted(l) == l.kind = kind /\ l.cat = c IN SelectSeq(printed, Wanted)

\* C16: print_summary ends with a total that is the sum of the lengths of all
\* lists of the result; it prints one count, the length, and then the
\* filenames in order for each category whose list is not empty, and nothing
\* for the others; for a result with every list empty it reports 0; it raises
\* nothing and leaves the result as it was.
C16_SummaryTotals ==
  [][(pc = "returned" /\ pc' = "summarized") =>
       LET printed == SubSeq(out', Len(out) + 1, Len(out'))
           mf == moved_files
       IN /\ printed[Len(printed)] =
               CountLine("total", "", SumLen(mf, DOMAIN mf))
          /\ \A c \in DOMAIN mf :
               /\ LinesOf(printed, "count", c) =
                    IF mf[c] = <<>> THEN <<>> ELSE <<CountLine("count", c, Len(mf[c]))>>
               /\ LinesOf(printed, "listed", c) =
                    [i \in 1..Len(mf[c]) |-> Line("listed", mf[c][i], c)]
          /\ \A i \in 1..Len(printed) : printed[i].kind \in {"count", "listed"} =>
               printed[i].cat \in DOMAIN mf
          /\ AllEmpty(mf) =>
               printed = <<Line("summary", <<>>, ""), CountLine("total", "", 0)>>
          /\ moved_files' = moved_files
          /\ error' = "none"]_vars

C16_Witness ==
  /\ pc = "summarized"
  /\ moved_files["Images"] = <<aJPG, bTxt>>
  /\ moved_files["Documents"] = <<bTxt>>
  /\ moved_files["Other"] = <<>>
  /\ out[Len(out)] = CountLine("total", "", 3)
  /\ LinesOf(out, "count", "Other") = <<>>

\* ------------------------------------------------------------ claims on main
\* organize_files and print_summary have not been invoked.
NeitherInvoked ==
  /\ runs = 0
  /\ moved_files = <<>>
  /\ files = <<>>
  /\ \A i \in 1..Len(out) : out[i].kind \in {"created", "folders-created", "Error"}

\* Every regular file, and everything under the category folders and the
\* subdirectory, is where it was when the command began.
FilesInPlace ==
  /\ top = before.top
  /\ inSub = before.inSub
  /\ inDir = before.inDir
  /\ nested = before.nested

\* C17 (as claimed): with --create-folders, organize_files and print_summary
\* are never invoked, no file leaves its place, and when main has returned all
\* category folders exist.
C17_CreateFoldersOnly ==
  (caller = "main" /\ create_folders) =>
    /\ NeitherInvoked
    /\ FilesInPlace
    /\ pc = "exited" => AllCategoryNames \subseteq folders

\* C17 (amended): with --create-folders, organize_files and print_summary are
\* never invoked and no file leaves its place; when folder provisioning raised
\* no error, all category folders exist once main has returned, and when it
\* raised, main reports the error and returns 1.
C17_CreateFoldersOnlyUnlessRaised ==
  (caller = "main" /\ create_folders) =>
    /\ NeitherInvoked
    /\ FilesInPlace
    /\ pc \in {"provision", "main", "raised", "exited"}
    /\ (pc = "exited" /\ error = "none") =>
         /\ folders = AllCategoryNames
         /\ exit_code = "None"
         /\ out[Len(out)].kind = "folders-created"
    /\ (pc = "exited" /\ error # "none") => exit_code = "1"

C17_Witness ==
  /\ caller = "main"
  /\ create_folders
  /\ pc = "exited"
  /\ error = "none"
  /\ before.folders = {}
  /\ folders = AllCategoryNames
  /\ top[aJPG] = TopFile(aJPG)

\* C18 (as claimed): main with --dry-run and without --create-folders changes
\* nothing in the filesystem: no category folder is created and no file is
\* touched.
C18_MainDryRunNoMutation ==
  (caller = "main" /\ dry_run /\ ~create_folders) => Snapshot = before

\* ------------------------------------------------- claims on the loop order
\* The names of the files the loop has handled, in the order it handled them.
Attempted == [i \in 1..Len(AttemptLines) |-> AttemptLines[i].name]

\* How often a name is listed in the whole result.
TimesListed(n) == SumLen([c \in DOMAIN moved_files |->
                            SelectSeq(moved_files[c], LAMBDA x : x = n)], DOMAIN moved_files)

\* What holds of the loop at every moment of a run: the files were listed once,
\* without repetition; those handled so far are the first of the list, in its
\* order, each handled once; each of them is either recorded once, under the
\* category of its line, or failed and recorded nowhere; and each list of the
\* result is in enumeration order.
OneAtATime ==
  /\ \A i, j \in 1..Len(files) : files[i] = files[j] => i = j
  /\ pc \in {"provision", "loop", "returned"} => Range(files) = FilesBefore
  /\ Len(Attempted) <= Len(files)
  /\ Attempted = SubSeq(files, 1, Len(Attempted))
  /\ pc = "loop" => Len(Attempted) = idx - 1
  /\ \A i \in 1..Len(AttemptLines) :
       LET l == AttemptLines[i]
       IN IF l.kind = "error" THEN TimesListed(l.name) = 0
          ELSE TimesListed(l.name) = 1 /\ Count(moved_files[l.cat], l.name) = 1
  /\ \A c \in DOMAIN moved_files :
       /\ Range(moved_files[c]) \subseteq Range(Attempted)
       /\ moved_files[c] = SelectSeq(Attempted, LAMBDA n : n \in Range(moved_files[c]))

\* C19 (as claimed): every run handles its files one at a time in enumeration
\* order, and when the run has ended each enumerated file has been attempted
\* exactly once.
C19_EachFileAttemptedOnce ==
  /\ OneAtATime
  /\ pc \in {"returned", "raised"} => Len(Attempted) = Len(files)

\* C19 (amended): every run handles its files one at a time in enumeration
\* order; when the run returns, each enumerated file has been attempted
\* exactly once; when folder provisioning fails, the run ends with none of the
\* enumerated files attempted.
C19_EachFileAttemptedOnceUnlessRaised ==
  /\ OneAtATime
  /\ pc = "returned" => Len(Attempted) = Len(files)
  /\ (pc = "raised" /\ files # <<>>) => Attempted = <<>> /\ mk \in 1..Len(CategoryList)

C19_Witness ==
  /\ pc = "returned"
  /\ ~dry_run
  /\ files = <<dPdf, bTxt>>
  /\ moved_files["Documents"] = <<dPdf, bTxt>>
  /\ Attempted = files

\* --------------------------------------- claims on failing folder provisioning
\* The running call ended inside create_category_folders.
ProvisioningFailed == pc = "raised" /\ mk >= 1

\* Some regular file of the directory bears the name of a category.
CategoryNameTaken == \E n \in FilesBefore : Join(n) \in AllCategoryNames

\* C20: when mkdir raises in the provisioning of a live run, the run ends with
\* that exception: no file has left its place, no move has been attempted and
\* nothing is recorded or returned; with a regular file named like a category
\* in the directory a live run never reaches its loop and never returns.
C20_ProvisioningFailurePropagates ==
  /\ ProvisioningFailed =>
       /\ ~dry_run
       /\ error \in {"FileExistsError", "PermissionError"}
       /\ FilesInPlace
       /\ files # <<>>
       /\ AttemptLines = <<>>
       /\ AllEmpty(moved_files)
  /\ (~dry_run /\ CategoryNameTaken /\ pc \notin {"idle", "check", "enumerate"}) =>
       pc \in {"provision", "raised"}
  /\ (~dry_run /\ pc \in {"loop", "returned"} /\ files # <<>>) =>
       AllCategoryNames \subseteq folders

C20_Witness ==
  /\ ProvisioningFailed
  /\ error = "FileExistsError"
  /\ top[fOther] = TopFile(fOther)
  /\ top[aJPG] = TopFile(aJPG)
  /\ mk = Len(CategoryList)
  /\ "Images" \in folders \ before.folders

\* ------------------------------------------------- claims on a second call
\* The call before the running one is the one the caller kept.
KeptIsPrevious == runs >= 2 /\ kept.run = runs - 1

\* The call before the running one was a live run that returned with every
\* move succeeded.
KeptAllMoved ==
  /\ KeptIsPrevious
  /\ kept.pc = "returned"
  /\ ~kept.dry_run
  /\ \A i \in 1..Len(kept.out) : kept.out[i].kind # "error"

\* C21: a live run made directly after a live run that returned with every
\* move succeeded finds no regular file in the directory, changes nothing,
\* raises nothing and returns a result with every category and every list
\* empty; each file the first run moved is still in its category folder.
C21_SecondLiveRunNoOp ==
  (KeptAllMoved /\ ~dry_run) =>
    /\ pc \in {"check", "enumerate", "returned"}
    /\ error = "none"
    /\ FilesBefore = {}
    /\ Snapshot = before
    /\ pc = "returned" =>
         /\ files = <<>>
         /\ DOMAIN moved_files = AllCategoryNames
         /\ AllEmpty(moved_files)
         /\ out = <<Line("none", <<>>, "")>>
    /\ \A c \in DOMAIN kept.moved_files : \A i \in 1..Len(kept.moved_files[c]) :
         LET n == kept.moved_files[c][i]
         IN HoldersOf(n) = {c}

C21_Witness ==
  /\ KeptAllMoved
  /\ runs = 2
  /\ ~dry_run
  /\ pc = "returned"
  /\ kept.moved_files["Documents"] = <<dPdf, bTxt>>
  /\ inDir["Documents"][bTxt] = TopFile(bTxt)
  /\ inDir["Documents"][dPdf] = TopFile(dPdf)
  /\ AllEmpty(moved_files)

\* The names whose move the running call reported as failed.
FailedNames == {out[i].name : i \in {k \in 1..Len(out) : out[k].kind = "error"}}

\* A dry run returned, and the live run made after it on the same contents,
\* with the files listed in the same order, has returned too.
DryThenLive ==
  /\ KeptIsPrevious
  /\ kept.dry_run
  /\ kept.pc = "returned"
  /\ ~dry_run
  /\ pc = "returned"
  /\ before = kept.before
  /\ files = kept.files

\* C22: for the same contents and enumeration order the result of the live
\* run is the result of the dry run without the names whose move failed: the
\* same keys, each list the dry run's list with the failed names left out, and
\* so the same result when no move failed.
C22_LiveIsDryMinusFailed ==
  DryThenLive =>
    /\ DOMAIN moved_files = DOMAIN kept.moved_files
    /\ \A c \in DOMAIN kept.moved_files :
         moved_files[c] = SelectSeq(kept.moved_files[c], LAMBDA n : n \notin FailedNames)
    /\ \A n \in FailedNames : \E c \in DOMAIN kept.moved_files : n \in Range(kept.moved_files[c])
    /\ FailedNames = {} => moved_files = kept.moved_files

C22_Witness ==
  /\ DryThenLive
  /\ kept.moved_files["Documents"] = <<dPdf, bTxt>>
  /\ moved_files["Documents"] = <<bTxt>>
  /\ FailedNames = {dPdf}
  /\ top[dPdf] = TopFile(dPdf)

====
